---- MODULE Spec2Model ----
(***************************************************************************)
(* UniSwap campus marketplace: the products table with its row level       *)
(* security policies (supabase/migrations) and the client components that  *)
(* write to it (SellItemModal, EditItemModal, App).                        *)
(*                                                                         *)
(* SpecPolicy drives the table directly, as any client holding the         *)
(* project's API key can: every caller, every payload.  SpecApp drives it  *)
(* through the React components.                                           *)
(***************************************************************************)
EXTENDS Integers, Sequences, FiniteSets, TLC

VARIABLES
    accounts,   \* auth.users: the identifiers of the existing accounts
    columns,    \* the columns of public.products (besides id, created_at)
    policies,   \* the row level security policies on public.products
    rows,       \* public.products: id -> row; ids grow with created_at
    last,       \* the most recent statement sent to the database, with its outcome
    \* App (lib/supabase.ts)
    session,          \* the signed-in account, NULL without a session
    products,         \* the feed: products, newest first
    fetches,          \* fetchProducts calls awaiting their answer: the caller of each
    feedLoading,      \* App's loading flag
    selectedProduct,  \* the product shown by ProductDetailModal
    editingProduct,   \* the product handed to EditItemModal
    showSellModal,
    notice,           \* the text of the last alert()
    \* SellItemModal
    step, loading, imageFile, countryCode, formData,
    submits,          \* handleSubmit calls awaiting an answer
    \* EditItemModal
    editForm, saving,
    saves,            \* handleSave calls awaiting their answer
    \* App's realtime subscription
    channels,         \* the registered 'realtime:products' channels
    events,           \* change notifications sent to the channel, not yet handled
    \* bookkeeping, read by no action
    creator           \* id -> the account whose listing form created the row

dbVars == <<accounts, columns, policies, rows>>
feedVars == <<products, fetches, feedLoading>>
detailVars == <<selectedProduct, editingProduct>>
sellVars == <<step, loading, imageFile, countryCode, formData>>
editVars == <<editForm, saving>>
realtimeVars == <<channels, events>>
appVars ==
    <<session, feedVars, detailVars, showSellModal, notice, sellVars, submits,
      editVars, saves, creator, realtimeVars>>

(***************************************************************************)
(* Bounds of the model.                                                    *)
(***************************************************************************)
NumUsers == 2
MaxRows == 2
MaxListings == 1
MaxInFlight == 2

\* SQL NULL for a uuid; account identifiers are 1..NumUsers.
NULL == 0
Users == 1..NumUsers

(***************************************************************************)
(* Text.  A string the code looks into (phone, country code, image URL,    *)
(* price) is a sequence of one-character strings; a string it only tests   *)
(* for emptiness is a TLA+ string.                                         *)
(***************************************************************************)
DigitChars == <<"0", "1", "2", "3", "4", "5", "6", "7", "8", "9">>

IsDigit(ch) == \E i \in DOMAIN DigitChars : DigitChars[i] = ch

DigitValue(ch) == (CHOOSE i \in DOMAIN DigitChars : DigitChars[i] = ch) - 1

IsSpace(ch) == ch = " "

\* String.prototype.trim
RECURSIVE TrimStart(_)
TrimStart(s) ==
    IF s # <<>> /\ IsSpace(Head(s)) THEN TrimStart(Tail(s)) ELSE s

RECURSIVE TrimEnd(_)
TrimEnd(s) ==
    IF s # <<>> /\ IsSpace(s[Len(s)]) THEN TrimEnd(SubSeq(s, 1, Len(s) - 1)) ELSE s

Trim(s) == TrimEnd(TrimStart(s))

\* s.replace(/\D/g, '')
StripNonDigits(s) == SelectSeq(s, IsDigit)

\* s.replace(/^0+/, '')
RECURSIVE StripLeadingZeros(_)
StripLeadingZeros(s) ==
    IF s # <<>> /\ Head(s) = "0" THEN StripLeadingZeros(Tail(s)) ELSE s

\* s.replace('+', ''): the first '+' only.
RECURSIVE RemoveFirstPlus(_)
RemoveFirstPlus(s) ==
    IF s = <<>> THEN <<>>
    ELSE IF Head(s) = "+" THEN Tail(s)
    ELSE <<Head(s)>> \o RemoveFirstPlus(Tail(s))

\* s.startsWith(prefix)
StartsWith(s, prefix) ==
    Len(prefix) <= Len(s) /\ SubSeq(s, 1, Len(prefix)) = prefix

\* The value of a run of digits.
RECURSIVE DigitsValue(_)
DigitsValue(s) ==
    IF s = <<>> THEN 0
    ELSE 10 * DigitsValue(SubSeq(s, 1, Len(s) - 1)) + DigitValue(s[Len(s)])

\* The longest prefix of s made of digits.
RECURSIVE DigitPrefix(_)
DigitPrefix(s) ==
    IF s # <<>> /\ IsDigit(Head(s)) THEN <<Head(s)>> \o DigitPrefix(Tail(s)) ELSE <<>>

\* A JavaScript number: <<n>>, or <<>> for NaN.  (Integers only.)
NaN == <<>>

\* parseFloat: leading whitespace skipped, then an optional sign and the
\* longest run of digits; NaN without a digit.
ParseFloat(s) ==
    LET t == TrimStart(s)
        negative == t # <<>> /\ Head(t) = "-"
        body == IF t # <<>> /\ Head(t) \in {"-", "+"} THEN Tail(t) ELSE t
        digits == DigitPrefix(body)
    IN  IF digits = <<>> THEN NaN
        ELSE <<IF negative THEN 0 - DigitsValue(digits) ELSE DigitsValue(digits)>>

\* Number(s): 0 for an empty or blank string, the value of a whole numeral,
\* NaN for anything else.
ToNumber(s) ==
    LET t == Trim(s)
        negative == t # <<>> /\ Head(t) = "-"
        body == IF t # <<>> /\ Head(t) \in {"-", "+"} THEN Tail(t) ELSE t
    IN  IF t = <<>> THEN <<0>>
        ELSE IF body = <<>> \/ DigitPrefix(body) # body THEN NaN
        ELSE <<IF negative THEN 0 - DigitsValue(body) ELSE DigitsValue(body)>>

\* String(n) for an integer n.
RECURSIVE NaturalText(_)
NaturalText(n) ==
    IF n < 10 THEN <<DigitChars[n + 1]>>
    ELSE NaturalText(n \div 10) \o <<DigitChars[(n % 10) + 1]>>

ToText(n) == IF n < 0 THEN <<"-">> \o NaturalText(0 - n) ELSE NaturalText(n)

(***************************************************************************)
(* Callers.  A request carries either the anonymous key alone (role anon)  *)
(* or a signed-in account's token (role authenticated).                    *)
(***************************************************************************)
Anon == [role |-> "anon", uid |-> NULL]
Authenticated(u) == [role |-> "authenticated", uid |-> u]
Callers(accts) == {Anon} \cup {Authenticated(u) : u \in accts}

\* auth.uid(): the caller's account, NULL without a signed-in account.
AuthUid(caller) == IF caller.role = "authenticated" THEN caller.uid ELSE NULL

(***************************************************************************)
(* Schema.                                                                 *)
(***************************************************************************)
\* CREATE TABLE products: the columns a client supplies.
Migration1Columns ==
    {"title", "description", "price", "condition", "category",
     "image_url", "seller_name", "seller_phone"}

\* Columns declared NOT NULL without a DEFAULT: an insert must supply them.
RequiredColumns ==
    {"title", "description", "price", "category",
     "image_url", "seller_name", "seller_phone"}

\* condition text NOT NULL DEFAULT 'Used'; owner_id has no default, so NULL.
ColumnDefault(c) == IF c = "condition" THEN "Used" ELSE NULL

\* alter table add column if not exists owner_id uuid references auth.users(id)
Migration2Columns(cols) == cols \cup {"owner_id"}

(***************************************************************************)
(* Policies.  An expression is kept as its SQL text and evaluated by       *)
(* EvalExpr; "" stands for a clause the policy does not have.              *)
(***************************************************************************)
ExprTrue == "true"
ExprOwner == "owner_id = auth.uid()"

\* SQL three-valued logic: a comparison with NULL is not true.
EvalExpr(expr, row, caller) ==
    CASE expr = ExprTrue -> TRUE
      [] expr = ExprOwner ->
            /\ row.owner_id # NULL
            /\ AuthUid(caller) # NULL
            /\ row.owner_id = AuthUid(caller)
      [] OTHER -> FALSE

\* 20260213160631_create_products_table.sql: no TO clause means TO public.
Migration1Policies ==
    {[name |-> "Anyone can view products", cmd |-> "select",
      roles |-> "public", using |-> ExprTrue, check |-> ""],
     [name |-> "Anyone can create products", cmd |-> "insert",
      roles |-> "public", using |-> "", check |-> ExprTrue]}

DropPolicyIfExists(ps, name) == {p \in ps : p.name # name}

CreatePolicy(ps, p) == ps \cup {p}

\* 20260215193000_enforce_owner_based_updates.sql, the three drops.  The
\* policies of the first migration are not among them.
Migration2Drops(ps) ==
    DropPolicyIfExists(
        DropPolicyIfExists(
            DropPolicyIfExists(ps, "Authenticated can view products"),
            "Authenticated can create products"),
        "Authenticated can update products")

AuthenticatedCanView ==
    [name |-> "Authenticated can view products", cmd |-> "select",
     roles |-> "authenticated", using |-> ExprTrue, check |-> ""]

AuthenticatedCanCreate ==
    [name |-> "Authenticated can create products", cmd |-> "insert",
     roles |-> "authenticated", using |-> "", check |-> ExprOwner]

AuthenticatedCanUpdate ==
    [name |-> "Authenticated can update products", cmd |-> "update",
     roles |-> "authenticated", using |-> ExprOwner, check |-> ExprOwner]

\* Variants of the second migration, each a slip in one policy.
Migration2Policies_UpdateUsingTrue(ps) ==
    CreatePolicy(
        CreatePolicy(
            CreatePolicy(Migration2Drops(ps), AuthenticatedCanView),
            AuthenticatedCanCreate),
        [AuthenticatedCanUpdate EXCEPT !.using = ExprTrue])

Migration2Policies_UpdateCheckTrue(ps) ==
    CreatePolicy(
        CreatePolicy(
            CreatePolicy(Migration2Drops(ps), AuthenticatedCanView),
            AuthenticatedCanCreate),
        [AuthenticatedCanUpdate EXCEPT !.check = ExprTrue])

Migration2Policies_OwnerCanDelete(ps) ==
    CreatePolicy(
        CreatePolicy(
            CreatePolicy(
                CreatePolicy(Migration2Drops(ps), AuthenticatedCanView),
                AuthenticatedCanCreate),
            AuthenticatedCanUpdate),
        [name |-> "Authenticated can delete products", cmd |-> "delete",
         roles |-> "authenticated", using |-> ExprOwner, check |-> ""])

Migration2Policies_OwnerOnlyView(ps) ==
    CreatePolicy(
        CreatePolicy(
            CreatePolicy(
                DropPolicyIfExists(Migration2Drops(ps), "Anyone can view products"),
                [AuthenticatedCanView EXCEPT !.using = ExprOwner]),
            AuthenticatedCanCreate),
        AuthenticatedCanUpdate)

\* 20260215193000_enforce_owner_based_updates.sql: the drops, then the creates.
Migration2Policies(ps) ==
    CreatePolicy(
        CreatePolicy(
            CreatePolicy(Migration2Drops(ps), AuthenticatedCanView),
            AuthenticatedCanCreate),
        AuthenticatedCanUpdate)

(***************************************************************************)
(* Row level security is enabled by both migrations: a statement sees or   *)
(* writes a row only if some permissive policy for its command and the     *)
(* caller's role passes; with no such policy nothing passes (default deny).*)
(***************************************************************************)
PolicyApplies(p, cmd, caller) ==
    /\ p.cmd = cmd
    /\ p.roles = "public" \/ p.roles = caller.role

UsingPasses(cmd, caller, row) ==
    \E p \in policies : PolicyApplies(p, cmd, caller) /\ EvalExpr(p.using, row, caller)

CheckPasses(cmd, caller, row) ==
    \E p \in policies : PolicyApplies(p, cmd, caller) /\ EvalExpr(p.check, row, caller)

(***************************************************************************)
(* Statements.  Each yields the table afterwards, the status the client    *)
(* receives and the number of rows affected.  A row hidden by a USING      *)
(* clause is skipped without an error; a new row failing WITH CHECK, a     *)
(* missing NOT NULL column, an unknown column and a broken foreign key are *)
(* errors and leave the table as it was.                                   *)
(***************************************************************************)
NoRecord == [c \in {} |-> NULL]

\* id uuid DEFAULT gen_random_uuid(), created_at DEFAULT now(): a fresh key,
\* later than every stored one.
NextId(tbl) ==
    IF DOMAIN tbl = {} THEN 1
    ELSE (CHOOSE i \in DOMAIN tbl : \A j \in DOMAIN tbl : j <= i) + 1

\* The row a statement writes: the payload's columns over `base`.
MergeRow(base, payload) ==
    [c \in columns |-> IF c \in DOMAIN payload THEN payload[c] ELSE base[c]]

DefaultRow == [c \in columns |-> ColumnDefault(c)]

\* owner_id uuid references auth.users(id)
ForeignKeyHolds(row) ==
    "owner_id" \in DOMAIN row => row.owner_id \in accounts \cup {NULL}

Rejected == [rows |-> rows, status |-> "error", count |-> 0]
Skipped == [rows |-> rows, status |-> "ok", count |-> 0]

\* The request did not reach the database.
Undelivered == [rows |-> rows, status |-> "undelivered", count |-> 0]

DbInsert(caller, payload) ==
    LET new == MergeRow(DefaultRow, payload)
        id == NextId(rows)
    IN  IF ~(DOMAIN payload \subseteq columns) \/ ~(RequiredColumns \subseteq DOMAIN payload)
        THEN Rejected
        ELSE IF ~CheckPasses("insert", caller, new) \/ ~ForeignKeyHolds(new)
        THEN Rejected
        ELSE [rows |-> [i \in DOMAIN rows \cup {id} |-> IF i = id THEN new ELSE rows[i]],
              status |-> "ok", count |-> 1]

\* Variant of DbUpdate: the new row is not held against WITH CHECK.
DbUpdate_NoWithCheck(caller, id, payload) ==
    IF ~(DOMAIN payload \subseteq columns) THEN Rejected
    ELSE IF id \notin DOMAIN rows THEN Skipped
    ELSE IF ~(UsingPasses("select", caller, rows[id]) /\ UsingPasses("update", caller, rows[id]))
    THEN Skipped
    ELSE LET new == MergeRow(rows[id], payload)
         IN  IF ~ForeignKeyHolds(new)
             THEN Rejected
             ELSE [rows |-> [rows EXCEPT ![id] = new], status |-> "ok", count |-> 1]

\* update ... where id = <id>.  The WHERE clause reads the row, so the SELECT
\* policies apply to it as well as the UPDATE policies.
DbUpdate(caller, id, payload) ==
    IF ~(DOMAIN payload \subseteq columns) THEN Rejected
    ELSE IF id \notin DOMAIN rows THEN Skipped
    ELSE IF ~(UsingPasses("select", caller, rows[id]) /\ UsingPasses("update", caller, rows[id]))
    THEN Skipped
    ELSE LET new == MergeRow(rows[id], payload)
         IN  IF ~CheckPasses("update", caller, new) \/ ~ForeignKeyHolds(new)
             THEN Rejected
             ELSE [rows |-> [rows EXCEPT ![id] = new], status |-> "ok", count |-> 1]

\* delete ... where id = <id>
DbDelete(caller, id) ==
    IF id \notin DOMAIN rows THEN Skipped
    ELSE IF ~(UsingPasses("select", caller, rows[id]) /\ UsingPasses("delete", caller, rows[id]))
    THEN Skipped
    ELSE [rows |-> [i \in DOMAIN rows \ {id} |-> rows[i]], status |-> "ok", count |-> 1]

\* select * from products: the rows the caller's SELECT policies let through.
DbSelect(caller) ==
    LET visible == {i \in DOMAIN rows : UsingPasses("select", caller, rows[i])}
    IN  [i \in visible |-> rows[i]]

Statement(op, caller, id, payload, res, result) ==
    [op |-> op, caller |-> caller, id |-> id, payload |-> payload,
     status |-> res.status, count |-> res.count, result |-> result]

(***************************************************************************)
(* SellItemModal.tsx                                                       *)
(***************************************************************************)
categories ==
    <<"Books", "Electronics", "Lab Gear", "Cycles", "Engineering Drawing", "Miscellaneous">>

countryCodes ==
    << <<"+", "9", "1">>, <<"+", "1">>, <<"+", "4", "4">>, <<"+", "6", "1">>, <<"+", "8", "1">> >>

descriptionSuggestions ==
    "Books" :> "Includes highlighted chapters, no torn pages, and ready for immediate use in current semester."
    @@ "Electronics" :> "Fully functional with charger/accessories included. Battery and ports tested recently."
    @@ "Lab Gear" :> "Maintained equipment with no leaks or cracks. Suitable for practical sessions and projects."
    @@ "Cycles" :> "Smooth brakes and gears, recently serviced, ideal for campus commute with low maintenance."
    @@ "Engineering Drawing" :> "Complete set with clean sheets and tools, lightly used and exam-ready condition."
    @@ "Miscellaneous" :> "Useful campus item in reliable condition. Can be inspected before purchase."

\* descriptionSuggestions[formData.category] || descriptionSuggestions.Miscellaneous
activeSuggestion(fd) ==
    IF fd.category \in DOMAIN descriptionSuggestions
    THEN descriptionSuggestions[fd.category]
    ELSE descriptionSuggestions["Miscellaneous"]

\* Variant of normalizePhone: leading zeros are stripped in the '+' branch too.
normalizePhone_PlusStripsZeros(code, rawPhone) ==
    LET trimmed == Trim(rawPhone)
        digits == StripLeadingZeros(StripNonDigits(trimmed))
        codeDigits == RemoveFirstPlus(code)
    IN  IF trimmed = <<>> THEN <<>>
        ELSE IF StartsWith(trimmed, <<"+">>) THEN <<"+">> \o digits
        ELSE IF StartsWith(digits, codeDigits) THEN <<"+">> \o digits
        ELSE code \o digits

\* Variant of normalizePhone: the country code is prepended without looking
\* whether the digits already begin with it.
normalizePhone_AlwaysPrependsCode(code, rawPhone) ==
    LET trimmed == Trim(rawPhone)
        digits == StripLeadingZeros(StripNonDigits(trimmed))
    IN  IF trimmed = <<>> THEN <<>>
        ELSE IF StartsWith(trimmed, <<"+">>) THEN <<"+">> \o StripNonDigits(trimmed)
        ELSE code \o digits

\* Variant of normalizePhone: leading zeros are kept.
normalizePhone_KeepsLeadingZeros(code, rawPhone) ==
    LET trimmed == Trim(rawPhone)
        digits == StripNonDigits(trimmed)
        codeDigits == RemoveFirstPlus(code)
    IN  IF trimmed = <<>> THEN <<>>
        ELSE IF StartsWith(trimmed, <<"+">>) THEN <<"+">> \o StripNonDigits(trimmed)
        ELSE IF StartsWith(digits, codeDigits) THEN <<"+">> \o digits
        ELSE code \o digits

\* Variant of normalizePhone: a leading '+' is not looked at.
normalizePhone_IgnoresPlus(code, rawPhone) ==
    LET trimmed == Trim(rawPhone)
        digits == StripLeadingZeros(StripNonDigits(trimmed))
        codeDigits == RemoveFirstPlus(code)
    IN  IF trimmed = <<>> THEN <<>>
        ELSE IF StartsWith(digits, codeDigits) THEN <<"+">> \o digits
        ELSE code \o digits

normalizePhone(code, rawPhone) ==
    LET trimmed == Trim(rawPhone)
        digits == StripLeadingZeros(StripNonDigits(trimmed))
        codeDigits == RemoveFirstPlus(code)
    IN  IF trimmed = <<>> THEN <<>>
        ELSE IF StartsWith(trimmed, <<"+">>) THEN <<"+">> \o StripNonDigits(trimmed)
        ELSE IF StartsWith(digits, codeDigits) THEN <<"+">> \o digits
        ELSE code \o digits

\* useState initial values of the form.
InitialFormData ==
    [title |-> "", description |-> "", category |-> "Books", condition |-> "Used",
     price |-> <<>>, imageUrl |-> <<>>, sellerName |-> "", sellerPhone |-> <<>>]

\* Variant of canProceedStep2: the price is not looked at.
canProceedStep2_ConditionOnly(fd) == fd.condition # ""

canProceedStep1(fd) == fd.title # "" /\ fd.description # "" /\ fd.category # ""
canProceedStep2(fd) == fd.price # <<>> /\ fd.condition # ""
canProceedStep3(fd) == fd.sellerName # "" /\ fd.sellerPhone # <<>>

NoProduct == NoRecord
NoFile == NoRecord

\* The components as first rendered, nobody signed in, nothing in flight.
InitApp ==
    /\ session = NULL
    /\ products = <<>>
    /\ fetches = <<>>
    /\ feedLoading = TRUE
    /\ selectedProduct = NoProduct
    /\ editingProduct = NoProduct
    /\ showSellModal = FALSE
    /\ notice = ""
    /\ step = 1
    /\ loading = FALSE
    /\ imageFile = NoFile
    /\ countryCode = <<"+", "9", "1">>
    /\ formData = InitialFormData
    /\ submits = {}
    /\ editForm = InitialFormData
    /\ saving = FALSE
    /\ saves = {}
    /\ creator = NoRecord
    /\ channels = {}
    /\ events = 0

(***************************************************************************)
(* Direct access to the table.                                             *)
(***************************************************************************)
SampleListing ==
    [title |-> "Casio FX-991EX", description |-> "lightly used", price |-> 1200,
     condition |-> "Used", category |-> "Books", image_url |-> "",
     seller_name |-> "Rahul Kumar", seller_phone |-> "+919876543210"]

WithOwner(payload, o) ==
    [c \in DOMAIN payload \cup {"owner_id"} |-> IF c = "owner_id" THEN o ELSE payload[c]]

\* A full row, with owner_id left out (so NULL) or set to any account.
InsertPayloads == {SampleListing} \cup {WithOwner(SampleListing, o) : o \in Users}

\* A new title, alone or with an owner_id: NULL or any account.
UpdatePayloads ==
    {[title |-> "Drafter"]}
        \cup {[title |-> "Drafter", owner_id |-> o] : o \in Users \cup {NULL}}

Migrated == "owner_id" \in columns

\* The state after 20260213160631_create_products_table.sql, every account
\* of the project registered, the table empty.
InitDb ==
    /\ accounts = Users
    /\ columns = Migration1Columns
    /\ policies = Migration1Policies
    /\ rows = NoRecord
    /\ last = Statement("migrate", Anon, NULL, NoRecord, Skipped, NoRecord)

\* 20260215193000_enforce_owner_based_updates.sql.  Rows stored before it
\* get owner_id NULL.
ApplyMigration2 ==
    /\ columns' = Migration2Columns(columns)
    /\ policies' = Migration2Policies(policies)
    /\ rows' = [i \in DOMAIN rows |->
                  [c \in Migration2Columns(columns) |->
                      IF c \in DOMAIN rows[i] THEN rows[i][c] ELSE NULL]]
    /\ last' = Statement("migrate", Anon, NULL, NoRecord, Skipped, NoRecord)
    /\ UNCHANGED <<accounts, appVars>>

\* An account is deleted from auth.users: on delete set null.
DeleteAccount(u) ==
    /\ u \in accounts
    /\ accounts' = accounts \ {u}
    /\ rows' = [i \in DOMAIN rows |->
                  IF Migrated /\ rows[i].owner_id = u
                  THEN [rows[i] EXCEPT !.owner_id = NULL]
                  ELSE rows[i]]
    /\ last' = Statement("delete account", Authenticated(u), NULL, NoRecord, Skipped, NoRecord)
    /\ UNCHANGED <<columns, policies, appVars>>

Insert(caller, payload) ==
    LET res == DbInsert(caller, payload)
    IN  /\ Cardinality(DOMAIN rows) < MaxRows
        /\ rows' = res.rows
        /\ last' = Statement("insert", caller, NULL, payload, res, NoRecord)
        /\ UNCHANGED <<accounts, columns, policies, appVars>>

Update(caller, id, payload) ==
    LET res == DbUpdate(caller, id, payload)
    IN  /\ rows' = res.rows
        /\ last' = Statement("update", caller, id, payload, res, NoRecord)
        /\ UNCHANGED <<accounts, columns, policies, appVars>>

Delete(caller, id) ==
    LET res == DbDelete(caller, id)
    IN  /\ rows' = res.rows
        /\ last' = Statement("delete", caller, id, NoRecord, res, NoRecord)
        /\ UNCHANGED <<accounts, columns, policies, appVars>>

Select(caller) ==
    /\ last' = Statement("select", caller, NULL, NoRecord, Skipped, DbSelect(caller))
    /\ UNCHANGED <<accounts, columns, policies, rows, appVars>>

vars == <<dbVars, last, appVars>>

NextPolicy ==
    \/ ApplyMigration2
    \/ \E u \in Users : DeleteAccount(u)
    \/ \E caller \in Callers(accounts), payload \in InsertPayloads : Insert(caller, payload)
    \/ \E caller \in Callers(accounts), id \in DOMAIN rows, payload \in UpdatePayloads :
          Update(caller, id, payload)
    \/ \E caller \in Callers(accounts), id \in DOMAIN rows : Delete(caller, id)
    \/ \E caller \in Callers(accounts) : Select(caller)

\* The first migration applied, the app not yet in use.
InitPolicy == InitDb /\ InitApp

SpecPolicy == InitPolicy /\ [][NextPolicy]_vars

(***************************************************************************)
(* Properties of the policy set, checked under SpecPolicy.                 *)
(***************************************************************************)
\* owner_id of the row an insert payload asks for: NULL when left out.
PayloadOwner(payload) ==
    IF "owner_id" \in DOMAIN payload THEN payload.owner_id ELSE NULL

\* The row an update payload asks for, computed from the stored row.
RequestedRow(old, payload) ==
    [c \in DOMAIN old |-> IF c \in DOMAIN payload THEN payload[c] ELSE old[c]]

\* C1: with both migrations applied, an insert by an authenticated caller is
\* accepted if and only if the new row's owner_id is the caller's identifier;
\* with a NULL or foreign owner_id it is rejected and adds no row.
C1_InsertAcceptedIffOwnerIsCaller ==
    [][(Migrated /\ last'.op = "insert" /\ last'.caller.role = "authenticated")
          => IF PayloadOwner(last'.payload) = last'.caller.uid
             THEN last'.status = "ok" /\ Cardinality(DOMAIN rows') = Cardinality(DOMAIN rows) + 1
             ELSE last'.status = "error" /\ rows' = rows]_vars

\* C2: an update by an authenticated caller changes the row if and only if the
\* stored row's owner_id and the resulting row's owner_id both equal the
\* caller's identifier; otherwise the table is left exactly as it was.
C2_UpdateChangesRowIffOwnerBeforeAndAfter ==
    [][(Migrated /\ last'.op = "update" /\ last'.caller.role = "authenticated")
          => LET old == rows[last'.id]
                 new == RequestedRow(old, last'.payload)
             IN  IF old.owner_id = last'.caller.uid /\ new.owner_id = last'.caller.uid
                 THEN rows' = [rows EXCEPT ![last'.id] = new]
                 ELSE rows' = rows]_vars

\* C2 witness: the owner's update with a new title went through.
C2_Witness ==
    /\ Migrated
    /\ last.op = "update"
    /\ last.caller.role = "authenticated"
    /\ last.count = 1
    /\ "title" \in DOMAIN last.payload
    /\ rows[last.id].title = last.payload.title
    /\ rows[last.id].owner_id = last.caller.uid

\* C3: with both migrations applied an anonymous caller is rejected for select,
\* insert, update and delete: it reads no row and writes none.
C3_AnonymousRejectedForEveryOperation ==
    [][(Migrated /\ last'.caller.role = "anon"
            /\ last'.op \in {"select", "insert", "update", "delete"})
          => /\ rows' = rows
             /\ last'.count = 0
             /\ last'.result = NoRecord
             /\ last'.op = "insert" => last'.status = "error"]_vars

\* C6: a row whose owner_id is NULL is never changed by an update, whoever the
\* caller and whatever the payload.
C6_NullOwnerRowNeverUpdated ==
    [][(Migrated /\ last'.op = "update" /\ rows[last'.id].owner_id = NULL)
          => rows' = rows /\ last'.count = 0]_vars

\* C6 witness: a signed-in account sent an update for a row without owner.
C6_Witness ==
    /\ Migrated
    /\ last.op = "update"
    /\ last.caller.role = "authenticated"
    /\ last.id \in DOMAIN rows
    /\ rows[last.id].owner_id = NULL

\* C7: owner_id is immutable under policy: no insert and no update changes the
\* owner_id of a stored row, and an update that asks for an owner_id other than
\* the authenticated caller changes nothing.
C7_OwnerIdImmutable ==
    [][(Migrated /\ last'.op \in {"insert", "update"})
          => /\ \A i \in DOMAIN rows :
                   i \in DOMAIN rows' /\ rows'[i].owner_id = rows[i].owner_id
             /\ (/\ last'.op = "update"
                 /\ "owner_id" \in DOMAIN last'.payload
                 /\ last'.payload.owner_id # AuthUid(last'.caller))
                   => rows' = rows]_vars

\* C7 witness: the owner of a row asked to hand it to someone else and got an error.
C7_Witness ==
    /\ Migrated
    /\ last.op = "update"
    /\ last.status = "error"
    /\ "owner_id" \in DOMAIN last.payload
    /\ rows[last.id].owner_id = last.caller.uid
    /\ last.payload.owner_id # last.caller.uid

\* C8: no operation removes a listing: a delete by any caller removes nothing,
\* and the set of stored identifiers never shrinks.
C8_NoListingIsRemoved ==
    [][/\ DOMAIN rows \subseteq DOMAIN rows'
       /\ last'.op = "delete" => (rows' = rows /\ last'.count = 0)]_vars

\* C8 witness: the owner of a row asked to delete it.
C8_Witness ==
    /\ Migrated
    /\ last.op = "delete"
    /\ last.caller.role = "authenticated"
    /\ last.id \in DOMAIN rows
    /\ rows[last.id].owner_id = last.caller.uid

\* C9: a select by any authenticated caller returns every row of the table,
\* whatever its owner_id.
C9_AuthenticatedSelectReturnsEveryRow ==
    (Migrated /\ last.op = "select" /\ last.caller.role = "authenticated")
        => last.result = rows

\* C9 witness: the caller read a table holding a row without owner and a row
\* of another account.
C9_Witness ==
    /\ Migrated
    /\ last.op = "select"
    /\ last.caller.role = "authenticated"
    /\ \E i \in DOMAIN last.result : last.result[i].owner_id = NULL
    /\ \E i \in DOMAIN last.result : last.result[i].owner_id \notin {NULL, last.caller.uid}

(***************************************************************************)
(* App: session and feed (lib/supabase.ts).                                *)
(***************************************************************************)
\* The client sends the signed-in account's token, or the anonymous key alone.
CurrentCaller == IF session = NULL THEN Anon ELSE Authenticated(session)

\* alert() holds the page until it is dismissed: no handler and no callback
\* runs while a notice is up.
NoAlert == notice = ""

DismissAlert ==
    /\ notice # ""
    /\ notice' = ""
    /\ UNCHANGED <<dbVars, last, session, feedVars, detailVars, showSellModal, sellVars,
                   submits, editVars, saves, creator, realtimeVars>>

Product(i, row) == [c \in DOMAIN row \cup {"id"} |-> IF c = "id" THEN i ELSE row[c]]

\* .order('created_at', { ascending: false })
RECURSIVE NewestFirst(_)
NewestFirst(tbl) ==
    IF DOMAIN tbl = {} THEN <<>>
    ELSE LET m == CHOOSE i \in DOMAIN tbl : \A j \in DOMAIN tbl : j <= i
         IN  <<Product(m, tbl[m])>> \o NewestFirst([i \in DOMAIN tbl \ {m} |-> tbl[i]])

RemoveAt(seq, k) == SubSeq(seq, 1, k - 1) \o SubSeq(seq, k + 1, Len(seq))

\* Requests awaiting their response.
InFlight == Len(fetches) + Cardinality(submits) + Cardinality(saves)

\* A select on its way: the caller whose token it carries and, once the
\* database has run it, the rows it read.  `latest` marks the call issued
\* last; it is bookkeeping, read by no action.
Request(caller) ==
    [caller |-> caller, served |-> FALSE, data |-> NoRecord, latest |-> TRUE]

\* fetchProducts up to its await: setLoading(true) and the request.
FetchProducts(caller) ==
    /\ fetches' = Append([k \in DOMAIN fetches |-> [fetches[k] EXCEPT !.latest = FALSE]],
                         Request(caller))
    /\ feedLoading' = TRUE
    /\ UNCHANGED products

\* The database runs the select of the k-th pending fetchProducts call; its
\* answer is then on the way back.
FetchServed(k) ==
    /\ k \in DOMAIN fetches
    /\ ~fetches[k].served
    /\ fetches' = [fetches EXCEPT ![k] =
                       [@ EXCEPT !.served = TRUE, !.data = DbSelect(@.caller)]]
    /\ last' = Statement("select", fetches[k].caller, NULL, NoRecord, Skipped,
                         DbSelect(fetches[k].caller))
    /\ UNCHANGED <<dbVars, session, products, feedLoading, detailVars, showSellModal,
                   notice, sellVars, submits, editVars, saves, creator, realtimeVars>>

\* The data of a response: what the database read when it ran the select, at
\* the latest when the response is handed over.
FetchedData(request) ==
    IF request.served THEN request.data ELSE DbSelect(request.caller)

\* Variant of FetchResponse: setProducts(data || []) runs on the error branch
\* too, with no data.
FetchResponse_EmptiesOnError(k, failed) ==
    /\ NoAlert
    /\ k \in DOMAIN fetches
    /\ fetches' = RemoveAt(fetches, k)
    /\ feedLoading' = FALSE
    /\ IF failed
       THEN /\ products' = <<>>
            /\ last' = Statement("select", fetches[k].caller, NULL, NoRecord, Undelivered,
                                 NoRecord)
       ELSE /\ products' = NewestFirst(FetchedData(fetches[k]))
            /\ last' = IF fetches[k].served THEN last
                       ELSE Statement("select", fetches[k].caller, NULL, NoRecord, Skipped,
                                      DbSelect(fetches[k].caller))
    /\ UNCHANGED <<dbVars, session, detailVars, showSellModal, notice, sellVars,
                   submits, editVars, saves, creator, realtimeVars>>

\* fetchProducts after its await, for the k-th pending call: an error is
\* logged and leaves products alone; data replaces it.  A request the
\* database has not run yet is run and answered in this one step.
FetchResponse(k, failed) ==
    /\ NoAlert
    /\ k \in DOMAIN fetches
    /\ fetches' = RemoveAt(fetches, k)
    /\ feedLoading' = FALSE
    /\ IF failed
       THEN /\ products' = products
            /\ last' = Statement("select", fetches[k].caller, NULL, NoRecord, Undelivered,
                                 NoRecord)
       ELSE /\ products' = NewestFirst(FetchedData(fetches[k]))
            /\ last' = IF fetches[k].served THEN last
                       ELSE Statement("select", fetches[k].caller, NULL, NoRecord, Skipped,
                                      DbSelect(fetches[k].caller))
    /\ UNCHANGED <<dbVars, session, detailVars, showSellModal, notice, sellVars,
                   submits, editVars, saves, creator, realtimeVars>>

\* EditItemModal's effect on [product].
FormFromProduct(p) ==
    [title |-> p.title, description |-> p.description, category |-> p.category,
     condition |-> p.condition, price |-> ToText(p.price), imageUrl |-> p.image_url,
     sellerName |-> p.seller_name, sellerPhone |-> p.seller_phone]

\* The realtime effect's body: supabase.channel('realtime:products')
\* .on(...).subscribe() under the session of account u.  Channels are told
\* apart by a number free at the time.
Subscribed(chs, u) ==
    chs \cup {[id |-> CHOOSE n \in 1..(Cardinality(chs) + 1) : \A c \in chs : c.id # n,
               account |-> u]}

\* The realtime effect's cleanup: supabase.removeChannel(channel), for the
\* channel the effect registered under the session of account u.
Removed(chs, u) == {c \in chs : c.account # u}

\* A session begins (getSession at start, onAuthStateChange later).  The
\* marketplace tree mounts with fresh component state, the effect on
\* [session] fetches the feed, and the realtime effect registers its channel.
SignIn(u) ==
    /\ NoAlert
    /\ session = NULL
    /\ u \in accounts
    /\ InFlight < MaxInFlight
    /\ session' = u
    /\ FetchProducts(Authenticated(u))
    /\ channels' = Subscribed(channels, u)
    /\ events' = events
    /\ editForm' = IF DOMAIN editingProduct = {} THEN InitialFormData
                   ELSE FormFromProduct(editingProduct)
    /\ UNCHANGED <<dbVars, last, detailVars, showSellModal, notice, sellVars,
                   submits, saving, saves, creator>>

\* handleLogout / onAuthStateChange(null): App renders the login page; the
\* modals unmount and lose their state.  Calls in flight go on, their
\* setState calls now without effect.  The realtime effect's cleanup removes
\* the channel, and what was sent to it is no longer handled.
SignOut ==
    /\ NoAlert
    /\ session # NULL
    /\ session' = NULL
    /\ step' = 1
    /\ loading' = FALSE
    /\ imageFile' = NoFile
    /\ countryCode' = <<"+", "9", "1">>
    /\ formData' = InitialFormData
    /\ editForm' = InitialFormData
    /\ saving' = FALSE
    /\ submits' = {[s EXCEPT !.live = FALSE] : s \in submits}
    /\ saves' = {[s EXCEPT !.live = FALSE] : s \in saves}
    /\ channels' = Removed(channels, session)
    /\ events' = 0
    /\ UNCHANGED <<dbVars, last, feedVars, detailVars, showSellModal, notice, creator>>

\* The page behind a modal's overlay cannot be clicked.
NoModal ==
    /\ ~showSellModal
    /\ DOMAIN selectedProduct = {}
    /\ DOMAIN editingProduct = {}

\* "Sell" / "List an Item": setShowSellModal(true)
OpenSellModal ==
    /\ NoAlert
    /\ session # NULL
    /\ NoModal
    /\ showSellModal' = TRUE
    /\ UNCHANGED <<dbVars, last, session, feedVars, detailVars, notice, sellVars,
                   submits, editVars, saves, creator, realtimeVars>>

(***************************************************************************)
(* SellItemModal: the handlers.                                            *)
(***************************************************************************)
\* SellItemModal renders (isOpen) inside the signed-in tree.
SellOpen == session # NULL /\ showSellModal

sellFrame ==
    <<dbVars, last, session, feedVars, detailVars, showSellModal, notice, submits,
      editVars, saves, creator, realtimeVars>>

\* onClose of the X button
CloseSellModal ==
    /\ NoAlert
    /\ SellOpen
    /\ showSellModal' = FALSE
    /\ UNCHANGED <<dbVars, last, session, feedVars, detailVars, notice, sellVars,
                   submits, editVars, saves, creator, realtimeVars>>

SetTitle(v) ==
    /\ NoAlert
    /\ SellOpen /\ step = 1
    /\ formData' = [formData EXCEPT !.title = v]
    /\ UNCHANGED <<sellFrame, step, loading, imageFile, countryCode>>

SetCategory(v) ==
    /\ NoAlert
    /\ SellOpen /\ step = 1
    /\ formData' = [formData EXCEPT
                      !.category = v,
                      !.description = IF formData.description # "" THEN formData.description
                                      ELSE descriptionSuggestions[v]]
    /\ UNCHANGED <<sellFrame, step, loading, imageFile, countryCode>>

\* "Use this suggestion"
UseSuggestion ==
    /\ NoAlert
    /\ SellOpen /\ step = 1
    /\ formData' = [formData EXCEPT !.description = activeSuggestion(formData)]
    /\ UNCHANGED <<sellFrame, step, loading, imageFile, countryCode>>

SetDescription(v) ==
    /\ NoAlert
    /\ SellOpen /\ step = 1
    /\ formData' = [formData EXCEPT !.description = v]
    /\ UNCHANGED <<sellFrame, step, loading, imageFile, countryCode>>

SetPrice(v) ==
    /\ NoAlert
    /\ SellOpen /\ step = 2
    /\ formData' = [formData EXCEPT !.price = v]
    /\ UNCHANGED <<sellFrame, step, loading, imageFile, countryCode>>

SetCondition(v) ==
    /\ NoAlert
    /\ SellOpen /\ step = 2
    /\ formData' = [formData EXCEPT !.condition = v]
    /\ UNCHANGED <<sellFrame, step, loading, imageFile, countryCode>>

\* Variant of SetImageUrl: the selected file is kept.
SetImageUrl_KeepsFile(v) ==
    /\ NoAlert
    /\ SellOpen /\ step = 2
    /\ formData' = [formData EXCEPT !.imageUrl = v]
    /\ UNCHANGED <<sellFrame, step, loading, imageFile, countryCode>>

\* onChange of the image URL input
SetImageUrl(v) ==
    /\ NoAlert
    /\ SellOpen /\ step = 2
    /\ formData' = [formData EXCEPT !.imageUrl = v]
    /\ imageFile' = IF v # <<>> THEN NoFile ELSE imageFile
    /\ UNCHANGED <<sellFrame, step, loading, countryCode>>

handleFileUpload(file) ==
    /\ NoAlert
    /\ SellOpen /\ step = 2
    /\ IF file.type.major # "image"
       THEN /\ notice' = "Please choose a valid image file."
            /\ UNCHANGED <<imageFile, formData>>
       ELSE /\ imageFile' = file
            /\ formData' = [formData EXCEPT !.imageUrl = <<>>]
            /\ UNCHANGED notice
    /\ UNCHANGED <<dbVars, last, session, feedVars, detailVars, showSellModal, submits,
                   editVars, saves, creator, realtimeVars, step, loading, countryCode>>

SetSellerName(v) ==
    /\ NoAlert
    /\ SellOpen /\ step = 3
    /\ formData' = [formData EXCEPT !.sellerName = v]
    /\ UNCHANGED <<sellFrame, step, loading, imageFile, countryCode>>

SetCountryCode(v) ==
    /\ NoAlert
    /\ SellOpen /\ step = 3
    /\ countryCode' = v
    /\ UNCHANGED <<sellFrame, step, loading, imageFile, formData>>

SetSellerPhone(v) ==
    /\ NoAlert
    /\ SellOpen /\ step = 3
    /\ formData' = [formData EXCEPT !.sellerPhone = v]
    /\ UNCHANGED <<sellFrame, step, loading, imageFile, countryCode>>

\* onBlur of the phone input
BlurSellerPhone ==
    /\ NoAlert
    /\ SellOpen /\ step = 3
    /\ formData' = [formData EXCEPT !.sellerPhone = normalizePhone(countryCode, formData.sellerPhone)]
    /\ UNCHANGED <<sellFrame, step, loading, imageFile, countryCode>>

\* Variant of Back: the button does nothing while a submit is pending.
Back_NotWhileLoading ==
    /\ NoAlert
    /\ SellOpen /\ step > 1 /\ ~loading
    /\ step' = step - 1
    /\ UNCHANGED <<sellFrame, loading, imageFile, countryCode, formData>>

\* The Back button is rendered for step > 1.
Back ==
    /\ NoAlert
    /\ SellOpen /\ step > 1
    /\ step' = step - 1
    /\ UNCHANGED <<sellFrame, loading, imageFile, countryCode, formData>>

\* disabled of the Next button
NextDisabled ==
    \/ step = 1 /\ ~canProceedStep1(formData)
    \/ step = 2 /\ ~canProceedStep2(formData)

\* The Next button is rendered for step < 3.
GoNext ==
    /\ NoAlert
    /\ SellOpen /\ step < 3
    /\ ~NextDisabled
    /\ step' = step + 1
    /\ UNCHANGED <<sellFrame, loading, imageFile, countryCode, formData>>

\* Variant of PublishDisabled: loading is not looked at.
PublishDisabled_IgnoresLoading == ~canProceedStep3(formData)

\* disabled of the Publish button
PublishDisabled == ~canProceedStep3(formData) \/ loading

\* The object handleSubmit inserts.  A NaN price travels as JSON null, which
\* the NOT NULL column refuses like a missing one: it is left out.
InsertRecord(fd, code, imageUrl) ==
    LET price == ParseFloat(fd.price)
        fields == [title |-> fd.title, description |-> fd.description,
                   category |-> fd.category, condition |-> fd.condition,
                   image_url |-> imageUrl, seller_name |-> fd.sellerName,
                   seller_phone |-> normalizePhone(code, fd.sellerPhone)]
    IN  IF price = NaN THEN fields
        ELSE [c \in DOMAIN fields \cup {"price"} |->
                 IF c = "price" THEN price[1] ELSE fields[c]]

\* Calls in flight are told apart by a number free at the time of the call.
FreeCall(calls) ==
    CHOOSE n \in 1..MaxInFlight : \A c \in calls : c.call # n

\* publicData.publicUrl of the uploaded object
publicUrl == <<"p">>

\* Variant of handleSubmit: the upload is not awaited; the insert goes out at
\* once with the URL field's value.
handleSubmit_UploadNotAwaited ==
    /\ NoAlert
    /\ SellOpen /\ step = 3
    /\ ~PublishDisabled
    /\ InFlight < MaxInFlight
    /\ Cardinality(DOMAIN rows) < MaxListings
    /\ loading' = TRUE
    /\ submits' = submits \cup
          {[call |-> FreeCall(submits),
            pc |-> "inserting",
            record |-> InsertRecord(formData, countryCode, Trim(formData.imageUrl)),
            account |-> session,
            caller |-> CurrentCaller,
            live |-> TRUE]}
    /\ UNCHANGED <<dbVars, last, session, feedVars, detailVars, showSellModal, notice,
                   editVars, saves, creator, realtimeVars, step, imageFile, countryCode, formData>>

\* handleSubmit up to its first await: the Publish button is rendered for step 3.
\* With a file the upload goes out; without, the insert.
handleSubmit ==
    /\ NoAlert
    /\ SellOpen /\ step = 3
    /\ ~PublishDisabled
    /\ InFlight < MaxInFlight
    /\ Cardinality(DOMAIN rows) < MaxListings
    /\ loading' = TRUE
    /\ submits' = submits \cup
          {[call |-> FreeCall(submits),
            pc |-> IF DOMAIN imageFile # {} THEN "uploading" ELSE "inserting",
            record |-> InsertRecord(formData, countryCode, Trim(formData.imageUrl)),
            account |-> session,
            caller |-> CurrentCaller,
            live |-> TRUE]}
    /\ UNCHANGED <<dbVars, last, session, feedVars, detailVars, showSellModal, notice,
                   editVars, saves, creator, realtimeVars, step, imageFile, countryCode, formData>>

\* Variant of UploadResponse: setLoading(false) is not in a finally block, so
\* a rejected upload leaves loading set.
UploadResponse_NoFinally(s, failed) ==
    /\ NoAlert
    /\ s \in submits /\ s.pc = "uploading"
    /\ IF failed
       THEN /\ submits' = submits \ {s}
            /\ notice' = "Create a public bucket named \"product-images\" in Supabase Storage."
            /\ UNCHANGED loading
       ELSE /\ submits' = (submits \ {s}) \cup
                  {[s EXCEPT !.pc = "inserting",
                             !.record = [s.record EXCEPT !.image_url = publicUrl],
                             !.caller = CurrentCaller]}
            /\ UNCHANGED <<notice, loading>>
    /\ UNCHANGED <<dbVars, last, session, feedVars, detailVars, showSellModal,
                   editVars, saves, creator, realtimeVars, step, imageFile, countryCode, formData>>

\* handleSubmit after the upload's await.  An upload error is thrown and
\* alerted; otherwise the public URL becomes image_url and the insert goes out.
UploadResponse(s, failed) ==
    /\ NoAlert
    /\ s \in submits /\ s.pc = "uploading"
    /\ IF failed
       THEN /\ submits' = submits \ {s}
            /\ notice' = "Create a public bucket named \"product-images\" in Supabase Storage."
            /\ loading' = IF s.live THEN FALSE ELSE loading
       ELSE /\ submits' = (submits \ {s}) \cup
                  {[s EXCEPT !.pc = "inserting",
                             !.record = [s.record EXCEPT !.image_url = publicUrl],
                             !.caller = CurrentCaller]}
            /\ UNCHANGED <<notice, loading>>
    /\ UNCHANGED <<dbVars, last, session, feedVars, detailVars, showSellModal,
                   editVars, saves, creator, realtimeVars, step, imageFile, countryCode, formData>>

\* Variant of InsertResponse: setCountryCode('+91') is left out of the reset.
InsertResponse_KeepsCountryCode(s, failed) ==
    LET res == IF failed THEN Undelivered ELSE DbInsert(s.caller, s.record)
        id == NextId(rows)
    IN  /\ NoAlert
        /\ s \in submits /\ s.pc = "inserting"
        /\ submits' = submits \ {s}
        /\ rows' = res.rows
        /\ last' = Statement("insert", s.caller, NULL, s.record, res, NoRecord)
        /\ loading' = IF s.live THEN FALSE ELSE loading
        /\ IF res.status # "ok"
           THEN /\ notice' = "Failed to create product. Please try again."
                /\ UNCHANGED <<feedVars, showSellModal, creator, realtimeVars, step, imageFile,
                               countryCode, formData>>
           ELSE /\ formData' = IF s.live THEN InitialFormData ELSE formData
                /\ imageFile' = IF s.live THEN NoFile ELSE imageFile
                /\ UNCHANGED countryCode
                /\ step' = IF s.live THEN 1 ELSE step
                /\ FetchProducts(CurrentCaller)
                /\ showSellModal' = FALSE
                /\ creator' = [i \in DOMAIN creator \cup {id} |->
                                  IF i = id THEN s.account ELSE creator[i]]
                /\ UNCHANGED <<notice, realtimeVars>>
        /\ UNCHANGED <<accounts, columns, policies, session, detailVars, editVars, saves>>

\* handleSubmit after the insert's await.  An error is thrown and alerted; on
\* success the form is reset, onSuccess (fetchProducts) and onClose are called.
InsertResponse(s, failed) ==
    LET res == IF failed THEN Undelivered ELSE DbInsert(s.caller, s.record)
        id == NextId(rows)
    IN  /\ NoAlert
        /\ s \in submits /\ s.pc = "inserting"
        /\ submits' = submits \ {s}
        /\ rows' = res.rows
        /\ last' = Statement("insert", s.caller, NULL, s.record, res, NoRecord)
        /\ loading' = IF s.live THEN FALSE ELSE loading
        /\ IF res.status # "ok"
           THEN /\ notice' = "Failed to create product. Please try again."
                /\ UNCHANGED <<feedVars, showSellModal, creator, realtimeVars, step, imageFile,
                               countryCode, formData>>
           ELSE /\ formData' = IF s.live THEN InitialFormData ELSE formData
                /\ imageFile' = IF s.live THEN NoFile ELSE imageFile
                /\ countryCode' = IF s.live THEN <<"+", "9", "1">> ELSE countryCode
                /\ step' = IF s.live THEN 1 ELSE step
                /\ FetchProducts(CurrentCaller)
                /\ showSellModal' = FALSE
                /\ creator' = [i \in DOMAIN creator \cup {id} |->
                                  IF i = id THEN s.account ELSE creator[i]]
                /\ UNCHANGED <<notice, realtimeVars>>
        /\ UNCHANGED <<accounts, columns, policies, session, detailVars, editVars, saves>>

(***************************************************************************)
(* Detail and edit modals (ProductDetailModal.tsx, EditItemModal.tsx).     *)
(***************************************************************************)
\* A card of the feed or a search suggestion is clicked.
SelectProduct(k) ==
    /\ NoAlert
    /\ session # NULL
    /\ NoModal
    /\ k \in DOMAIN products
    /\ selectedProduct' = products[k]
    /\ UNCHANGED <<dbVars, last, session, feedVars, editingProduct, showSellModal, notice,
                   sellVars, submits, editVars, saves, creator, realtimeVars>>

\* ProductDetailModal renders for a selected product inside the signed-in tree.
DetailOpen == session # NULL /\ DOMAIN selectedProduct # {}

\* onClose of ProductDetailModal
CloseDetail ==
    /\ NoAlert
    /\ DetailOpen
    /\ selectedProduct' = NoProduct
    /\ UNCHANGED <<dbVars, last, session, feedVars, editingProduct, showSellModal, notice,
                   sellVars, submits, editVars, saves, creator, realtimeVars>>

\* "Edit Listing", offered for every product: onEdit, then EditItemModal's
\* effect on the new product.
EditListing ==
    /\ NoAlert
    /\ DetailOpen
    /\ selectedProduct' = NoProduct
    /\ editingProduct' = selectedProduct
    /\ editForm' = FormFromProduct(selectedProduct)
    /\ UNCHANGED <<dbVars, last, session, feedVars, showSellModal, notice, sellVars,
                   submits, saving, saves, creator, realtimeVars>>

EditOpen == session # NULL /\ DOMAIN editingProduct # {}

\* onClose of EditItemModal
CloseEdit ==
    /\ NoAlert
    /\ EditOpen
    /\ editingProduct' = NoProduct
    /\ UNCHANGED <<dbVars, last, session, feedVars, selectedProduct, showSellModal, notice,
                   sellVars, submits, editVars, saves, creator, realtimeVars>>

\* onChange of one input of the edit form
SetEditField(field, v) ==
    /\ NoAlert
    /\ EditOpen
    /\ field \in DOMAIN editForm
    /\ editForm' = [editForm EXCEPT ![field] = v]
    /\ UNCHANGED <<dbVars, last, session, feedVars, detailVars, showSellModal, notice,
                   sellVars, submits, saving, saves, creator, realtimeVars>>

\* The payload handleSave sends.  A NaN price travels as JSON null: the
\* column is left out here and SaveResponse answers with the NOT NULL error.
SavePayload(fd) ==
    LET price == ToNumber(fd.price)
        fields == [title |-> fd.title, description |-> fd.description,
                   category |-> fd.category, condition |-> fd.condition,
                   image_url |-> fd.imageUrl, seller_name |-> fd.sellerName,
                   seller_phone |-> fd.sellerPhone]
    IN  IF price = NaN THEN fields
        ELSE [c \in DOMAIN fields \cup {"price"} |->
                 IF c = "price" THEN price[1] ELSE fields[c]]

\* handleSave up to its await; the button is disabled while saving.
handleSave ==
    /\ NoAlert
    /\ EditOpen
    /\ ~saving
    /\ InFlight < MaxInFlight
    /\ saving' = TRUE
    /\ saves' = saves \cup
          {[call |-> FreeCall(saves),
            id |-> editingProduct.id,
            payload |-> SavePayload(editForm),
            account |-> session,
            caller |-> CurrentCaller,
            live |-> TRUE]}
    /\ UNCHANGED <<dbVars, last, session, feedVars, detailVars, showSellModal, notice,
                   sellVars, submits, editForm, creator, realtimeVars>>

\* handleSave after its await.  Only an error is thrown and alerted; an
\* update that matched no row is no error: onSuccess (fetchProducts) and
\* onClose are called all the same.
SaveResponse(s, failed) ==
    LET res == IF failed THEN Undelivered
               ELSE IF "price" \notin DOMAIN s.payload THEN Rejected
               ELSE DbUpdate(s.caller, s.id, s.payload)
    IN  /\ NoAlert
        /\ s \in saves
        /\ saves' = saves \ {s}
        /\ rows' = res.rows
        /\ last' = Statement("update", s.caller, s.id, s.payload, res, NoRecord)
        /\ saving' = IF s.live THEN FALSE ELSE saving
        /\ IF res.status # "ok"
           THEN /\ notice' = "Failed to update listing"
                /\ UNCHANGED <<feedVars, editingProduct>>
           ELSE /\ FetchProducts(CurrentCaller)
                /\ editingProduct' = NoProduct
                /\ UNCHANGED notice
        /\ UNCHANGED <<accounts, columns, policies, session, selectedProduct, showSellModal,
                       sellVars, submits, editForm, creator, realtimeVars>>

(***************************************************************************)
(* The listing wizard on the migrated project.                             *)
(***************************************************************************)
\* Both migrations applied in order, every account registered, the table empty.
InitMigrated ==
    /\ accounts = Users
    /\ columns = Migration2Columns(Migration1Columns)
    /\ policies = Migration2Policies(Migration1Policies)
    /\ rows = NoRecord
    /\ last = Statement("migrate", Anon, NULL, NoRecord, Skipped, NoRecord)

\* The migrated project, the app as first rendered.
InitProject == InitMigrated /\ InitApp

\* What the seller types and picks.
SellTitles == {"", "Casio FX-991EX"}
SellDescriptions == {"", "Barely used"}
SellCategories == {categories[1], categories[2]}
SellPrices == {<<>>, <<"4", "5", "0">>}
SellConditions == {"New", "Used"}
SellImageUrls == {<<>>, <<"u">>}
SellFiles ==
    {[name |-> "desk.png", type |-> [major |-> "image", minor |-> "png"]],
     [name |-> "notes.pdf", type |-> [major |-> "application", minor |-> "pdf"]]}
SellNames == {"", "Asha"}
SellPhones == {<<>>, <<"9", "8">>}
SellCountryCodes == {countryCodes[1], countryCodes[2]}

\* The inputs the Next and Publish buttons look at.
TypeRequired ==
    \/ \E v \in SellTitles : SetTitle(v)
    \/ \E v \in SellDescriptions : SetDescription(v)
    \/ \E v \in SellPrices : SetPrice(v)
    \/ \E v \in SellNames : SetSellerName(v)
    \/ \E v \in SellPhones : SetSellerPhone(v)
    \/ BlurSellerPhone

\* The other inputs of the wizard.
TypeOther ==
    \/ \E v \in SellCategories : SetCategory(v)
    \/ UseSuggestion
    \/ \E v \in SellConditions : SetCondition(v)
    \/ \E v \in SellImageUrls : SetImageUrl(v)
    \/ \E file \in SellFiles : handleFileUpload(file)
    \/ \E v \in SellCountryCodes : SetCountryCode(v)

\* One session filling in the required fields, going back and forth and
\* publishing.
NextSell ==
    \/ \E u \in Users : SignIn(u)
    \/ \E k \in DOMAIN fetches, failed \in BOOLEAN : FetchResponse(k, failed)
    \/ DismissAlert
    \/ OpenSellModal
    \/ CloseSellModal
    \/ TypeRequired
    \/ Back
    \/ GoNext
    \/ handleSubmit
    \/ \E s \in submits, failed \in BOOLEAN : InsertResponse(s, failed)

SpecSell == InitProject /\ [][NextSell]_vars

(***************************************************************************)
(* One session composing a listing with every input of the wizard: the     *)
(* category and its suggestion, the condition, the two image variants and  *)
(* the country code.                                                       *)
(***************************************************************************)
FillIn ==
    \/ \E v \in SellTitles \ {""} : SetTitle(v)
    \/ \E v \in SellDescriptions \ {""} : SetDescription(v)
    \/ \E v \in SellPrices \ {<<>>} : SetPrice(v)
    \/ \E v \in SellNames \ {""} : SetSellerName(v)
    \/ \E v \in SellPhones \ {<<>>} : SetSellerPhone(v)

NextListing ==
    \/ \E u \in Users : SignIn(u)
    \/ \E k \in DOMAIN fetches : FetchResponse(k, FALSE)
    \/ DismissAlert
    \/ OpenSellModal
    \/ FillIn
    \/ TypeOther
    \/ BlurSellerPhone
    \/ GoNext
    \/ handleSubmit
    \/ \E s \in submits, failed \in BOOLEAN : UploadResponse(s, failed)
    \/ \E s \in submits, failed \in BOOLEAN : InsertResponse(s, failed)

SpecListing == InitProject /\ [][NextListing]_vars

(***************************************************************************)
(* The phone field: a seller at step 3 of the wizard, the other fields     *)
(* filled in, the phone input any short text over the characters that      *)
(* normalizePhone tells apart.  The blur handler and handleSubmit apply    *)
(* normalizePhone to it.                                                   *)
(***************************************************************************)
MaxPhoneLen == 4
PhoneChars == {"+", "0", "1", "9", " "}
PhoneInputs == UNION {[1..n -> PhoneChars] : n \in 0..MaxPhoneLen}

FilledForm(phone) ==
    [title |-> "Casio FX-991EX", description |-> "Barely used", category |-> "Books",
     condition |-> "Used", price |-> <<"4", "5", "0">>, imageUrl |-> <<>>,
     sellerName |-> "Asha", sellerPhone |-> phone]

\* Signed in, the first fetch answered, the wizard taken to step 3.
InitPhone ==
    /\ accounts = Users
    /\ columns = Migration2Columns(Migration1Columns)
    /\ policies = Migration2Policies(Migration1Policies)
    /\ rows = NoRecord
    /\ session \in Users
    /\ last = [op |-> "select", caller |-> Authenticated(session), id |-> NULL,
               payload |-> NoRecord, status |-> "ok", count |-> 0, result |-> NoRecord]
    /\ products = <<>>
    /\ fetches = <<>>
    /\ feedLoading = FALSE
    /\ selectedProduct = NoProduct
    /\ editingProduct = NoProduct
    /\ showSellModal = TRUE
    /\ notice = ""
    /\ step = 3
    /\ loading = FALSE
    /\ imageFile = NoFile
    /\ countryCode \in SellCountryCodes
    /\ formData \in {FilledForm(phone) : phone \in PhoneInputs}
    /\ submits = {}
    /\ editForm = InitialFormData
    /\ saving = FALSE
    /\ saves = {}
    /\ creator = NoRecord
    /\ channels = Subscribed({}, session)
    /\ events = 0

NextPhone ==
    \/ \E v \in SellCountryCodes : SetCountryCode(v)
    \/ BlurSellerPhone
    \/ handleSubmit

SpecPhone == InitPhone /\ [][NextPhone]_vars

(***************************************************************************)
(* The whole round: sessions come and go, a listing is published, found    *)
(* in the feed, opened and edited.  Fetches and inserts are answered;      *)
(* their failures are part of SpecSell.                                    *)
(***************************************************************************)
EditInputs == {<<"title", "Drafter">>}

NextApp ==
    \/ \E u \in Users : SignIn(u)
    \/ SignOut
    \/ \E k \in DOMAIN fetches : FetchResponse(k, FALSE)
    \/ DismissAlert
    \/ OpenSellModal
    \/ FillIn
    \/ GoNext
    \/ handleSubmit
    \/ \E s \in submits : InsertResponse(s, FALSE)
    \/ \E k \in DOMAIN products : SelectProduct(k)
    \/ CloseDetail
    \/ EditListing
    \/ CloseEdit
    \/ \E in \in EditInputs : SetEditField(in[1], in[2])
    \/ handleSave
    \/ \E s \in saves, failed \in BOOLEAN : SaveResponse(s, failed)

SpecApp == InitProject /\ [][NextApp]_vars

(***************************************************************************)
(* The listing wizard across sessions: the required fields, Back and Next, *)
(* the modal closed and reopened, Publish, and the session ended and       *)
(* begun again while a submit is pending.                                  *)
(***************************************************************************)
NextSession ==
    \/ \E u \in Users : SignIn(u)
    \/ SignOut
    \/ \E k \in DOMAIN fetches : FetchResponse(k, FALSE)
    \/ DismissAlert
    \/ OpenSellModal
    \/ CloseSellModal
    \/ TypeRequired
    \/ Back
    \/ GoNext
    \/ handleSubmit
    \/ \E s \in submits, failed \in BOOLEAN : InsertResponse(s, failed)

SpecSession == InitProject /\ [][NextSession]_vars

(***************************************************************************)
(* Prices and phones on their way into the table: one account, signed in   *)
(* with the feed loaded, publishes a listing or edits the listing it owns. *)
(* The table starts empty or with one listing whose owner_id is the        *)
(* account, as an insert that names the owner leaves it.                   *)
(***************************************************************************)
\* What a number input hands over: '' or a numeral, with or without a sign.
PriceInputs == {<<"4", "5", "0">>, <<"-", "5">>}
PhoneTexts == {<<"9", "8">>, <<" ">>}

OwnedListing ==
    [title |-> "Casio FX-991EX", description |-> "Barely used", price |-> 450,
     condition |-> "Used", category |-> "Books", image_url |-> <<>>,
     seller_name |-> "Asha", seller_phone |-> <<"+", "9", "1", "9", "8">>,
     owner_id |-> 1]

InitEdit ==
    /\ accounts = Users
    /\ columns = Migration2Columns(Migration1Columns)
    /\ policies = Migration2Policies(Migration1Policies)
    /\ rows \in {NoRecord, [i \in {1} |-> OwnedListing]}
    /\ session = 1
    /\ last = [op |-> "select", caller |-> Authenticated(session), id |-> NULL,
               payload |-> NoRecord, status |-> "ok", count |-> 0, result |-> rows]
    /\ products = NewestFirst(rows)
    /\ fetches = <<>>
    /\ feedLoading = FALSE
    /\ selectedProduct = NoProduct
    /\ editingProduct = NoProduct
    /\ showSellModal = FALSE
    /\ notice = ""
    /\ step = 1
    /\ loading = FALSE
    /\ imageFile = NoFile
    /\ countryCode = <<"+", "9", "1">>
    /\ formData = InitialFormData
    /\ submits = {}
    /\ editForm = InitialFormData
    /\ saving = FALSE
    /\ saves = {}
    /\ creator = NoRecord
    /\ channels = Subscribed({}, session)
    /\ events = 0

NextEdit ==
    \/ \E k \in DOMAIN fetches : FetchResponse(k, FALSE)
    \/ OpenSellModal
    \/ \E v \in SellTitles \ {""} : SetTitle(v)
    \/ \E v \in SellDescriptions \ {""} : SetDescription(v)
    \/ \E v \in PriceInputs : SetPrice(v)
    \/ \E v \in SellNames \ {""} : SetSellerName(v)
    \/ \E v \in PhoneTexts : SetSellerPhone(v)
    \/ GoNext
    \/ handleSubmit
    \/ \E s \in submits : InsertResponse(s, FALSE)
    \/ \E k \in DOMAIN products : SelectProduct(k)
    \/ EditListing
    \/ \E v \in PriceInputs : SetEditField("price", v)
    \/ \E v \in PhoneTexts : SetEditField("sellerPhone", v)
    \/ handleSave
    \/ \E s \in saves : SaveResponse(s, FALSE)

SpecEdit == InitEdit /\ [][NextEdit]_vars

\* The featured section as rendered: the loading text while App's loading
\* flag is up, the listings otherwise.
FeedView ==
    [placeholder |-> feedLoading,
     listings |-> IF feedLoading THEN <<>> ELSE products]

(***************************************************************************)
(* The feed: sessions begin, are renewed and end, the page is reloaded,    *)
(* other clients add listings, the realtime server announces the changes,  *)
(* and the fetches these set off are run and answered in any order.        *)
(***************************************************************************)
MaxEvents == 2

\* Listings other clients add.
ElsewherePayloads == {SampleListing, WithOwner(SampleListing, 1)}

\* Another client inserts a listing; the realtime server sends the change to
\* the channel, if one is registered.
InsertElsewhere(caller, payload) ==
    LET res == DbInsert(caller, payload)
    IN  /\ Cardinality(DOMAIN rows) < MaxRows
        /\ events < MaxEvents
        /\ res.status = "ok"
        /\ rows' = res.rows
        /\ last' = Statement("insert", caller, NULL, payload, res, NoRecord)
        /\ events' = IF channels # {} THEN events + 1 ELSE events
        /\ UNCHANGED <<accounts, columns, policies, session, feedVars, detailVars,
                       showSellModal, notice, sellVars, submits, editVars, saves,
                       creator, channels>>

\* Variant of Notification: the callback puts the newest stored listing in
\* front of the list instead of fetching.
Notification_Incremental ==
    /\ NoAlert
    /\ channels # {}
    /\ events > 0
    /\ InFlight < MaxInFlight
    /\ events' = events - 1
    /\ products' = IF DOMAIN rows = {} THEN products
                   ELSE <<Head(NewestFirst(rows))>> \o products
    /\ UNCHANGED <<dbVars, last, session, fetches, feedLoading, detailVars,
                   showSellModal, notice, sellVars, submits, editVars, saves, creator,
                   channels>>

\* The channel's postgres_changes callback: fetchProducts().
Notification ==
    /\ NoAlert
    /\ channels # {}
    /\ events > 0
    /\ InFlight < MaxInFlight
    /\ events' = events - 1
    /\ FetchProducts(CurrentCaller)
    /\ UNCHANGED <<dbVars, last, session, detailVars, showSellModal, notice, sellVars,
                   submits, editVars, saves, creator, channels>>

\* Variant of RefreshSession: the effect has no cleanup.
RefreshSession_NoCleanup ==
    /\ NoAlert
    /\ session # NULL
    /\ InFlight < MaxInFlight
    /\ FetchProducts(CurrentCaller)
    /\ channels' = Subscribed(channels, session)
    /\ events' = events
    /\ UNCHANGED <<dbVars, last, session, products, detailVars, showSellModal, notice,
                   sellVars, submits, editVars, saves, creator>>

\* onAuthStateChange hands over a new session object for the same account
\* (a renewed token): the effects on [session] run again, the realtime one
\* after its cleanup, so a new channel takes the place of the old one.  The
\* marketplace tree stays mounted.
RefreshSession ==
    /\ NoAlert
    /\ session # NULL
    /\ InFlight < MaxInFlight
    /\ FetchProducts(CurrentCaller)
    /\ channels' = Removed(channels, session)
                       \cup (Subscribed(channels, session) \ channels)
    /\ events' = 0
    /\ UNCHANGED <<dbVars, last, session, products, detailVars, showSellModal, notice,
                   sellVars, submits, editVars, saves, creator>>

\* The page is closed and opened again: App unmounts, the effects' cleanups
\* run, and App mounts with its initial state.  Nothing is left to receive
\* the answers of the fetches in flight.
Reload ==
    /\ NoAlert
    /\ submits = {} /\ saves = {}
    /\ session' = NULL
    /\ products' = <<>>
    /\ fetches' = <<>>
    /\ feedLoading' = TRUE
    /\ selectedProduct' = NoProduct
    /\ editingProduct' = NoProduct
    /\ showSellModal' = FALSE
    /\ step' = 1
    /\ loading' = FALSE
    /\ imageFile' = NoFile
    /\ countryCode' = <<"+", "9", "1">>
    /\ formData' = InitialFormData
    /\ editForm' = InitialFormData
    /\ saving' = FALSE
    /\ channels' = {}
    /\ events' = 0
    /\ UNCHANGED <<dbVars, last, notice, submits, saves, creator>>

NextFeed ==
    \/ \E u \in Users : SignIn(u)
    \/ SignOut
    \/ RefreshSession
    \/ Reload
    \/ \E caller \in Callers(accounts), payload \in ElsewherePayloads :
          InsertElsewhere(caller, payload)
    \/ Notification
    \/ \E k \in DOMAIN fetches : FetchServed(k)
    \/ \E k \in DOMAIN fetches : FetchResponse(k, FALSE)

SpecFeed == InitProject /\ [][NextFeed]_vars

(***************************************************************************)
(* The placeholder banner (lib/supabase.ts): hashString and getBannerStyle. *)
(* A text these look into is the sequence of its UTF-16 code units.  A     *)
(* 32-bit value is kept as its two 16-bit halves.                          *)
(***************************************************************************)
BANNER_PALETTES ==
    << <<"#2b2f77", "#4f46e5">>, <<"#1d4d7a", "#0ea5e9">>, <<"#3d2c8d", "#8b5cf6">>,
       <<"#2f4858", "#0f766e">>, <<"#4f2b5f", "#db2777">>, <<"#3d3f44", "#6b7280">> >>

\* charCodeAt over the titles and categories of the model.
CodeUnits ==
    "Casio FX-991EX" :> <<67, 97, 115, 105, 111, 32, 70, 88, 45, 57, 57, 49, 69, 88>>
    @@ "Drafter" :> <<68, 114, 97, 102, 116, 101, 114>>
    @@ "Lab coat" :> <<76, 97, 98, 32, 99, 111, 97, 116>>
    @@ "Books" :> <<66, 111, 111, 107, 115>>
    @@ "Electronics" :> <<69, 108, 101, 99, 116, 114, 111, 110, 105, 99, 115>>
    @@ "Lab Gear" :> <<76, 97, 98, 32, 71, 101, 97, 114>>
    @@ "Cycles" :> <<67, 121, 99, 108, 101, 115>>
    @@ "Engineering Drawing" :>
          <<69, 110, 103, 105, 110, 101, 101, 114, 105, 110, 103, 32,
            68, 114, 97, 119, 105, 110, 103>>
    @@ "Miscellaneous" :> <<77, 105, 115, 99, 101, 108, 108, 97, 110, 101, 111, 117, 115>>

\* The code units of `${id}`: the decimal digits of a model id.
IdCodeUnits(id) == [i \in DOMAIN ToText(id) |-> 48 + DigitValue(ToText(id)[i])]

\* (hash * 31 + value.charCodeAt(i)) >>> 0
HashStep(hash, code) ==
    LET low == hash.lo * 31 + code
    IN  [hi |-> ((hash.hi * 31) + (low \div 65536)) % 65536, lo |-> low % 65536]

\* The loop over the code units; h and v are the values of hash and of the
\* rest of the text at the head of one iteration.
RECURSIVE HashFrom(_, _)
HashFrom(hash, value) ==
    CHOOSE result \in {IF v = <<>> THEN h ELSE HashFrom(HashStep(h, Head(v)), Tail(v)) :
                          h \in {hash}, v \in {value}} : TRUE

hashString(value) == HashFrom([hi |-> 0, lo |-> 0], value)

\* hash % n for a 32-bit hash
Remainder(hash, n) == (((hash.hi % n) * (65536 % n)) + (hash.lo % n)) % n

\* `${product.title}-${product.category}-${product.id}`
BannerSeed(product) ==
    CodeUnits[product.title] \o <<45>> \o CodeUnits[product.category] \o <<45>>
        \o IdCodeUnits(product.id)

\* Variant of paletteIndex: the number of listings in the feed is added to
\* the hash.
paletteIndex_CountsTheFeed(product) ==
    (Remainder(hashString(BannerSeed(product)), Len(BANNER_PALETTES)) + Len(products))
        % Len(BANNER_PALETTES)

paletteIndex(product) == Remainder(hashString(BannerSeed(product)), Len(BANNER_PALETTES))

\* [start, end] of the gradient
getBannerStyle(product) == BANNER_PALETTES[paletteIndex(product) + 1]

(***************************************************************************)
(* The banner in use: a listing with any of the titles and categories is   *)
(* in the table when account 1 signs in; the feed is fetched, the session  *)
(* renewed, a listing added elsewhere, a card opened and closed.           *)
(***************************************************************************)
BannerTitles == {"Casio FX-991EX", "Drafter", "Lab coat"}
BannerCategories == {categories[i] : i \in DOMAIN categories}

BannerListing(title, category) ==
    [c \in Migration2Columns(Migration1Columns) |->
        IF c = "title" THEN title
        ELSE IF c = "category" THEN category
        ELSE IF c = "owner_id" THEN NULL
        ELSE SampleListing[c]]

InitBanner ==
    /\ accounts = Users
    /\ columns = Migration2Columns(Migration1Columns)
    /\ policies = Migration2Policies(Migration1Policies)
    /\ rows \in {[i \in {1} |-> BannerListing(t, c)] :
                    t \in BannerTitles, c \in BannerCategories}
    /\ last = Statement("migrate", Anon, NULL, NoRecord, Skipped, NoRecord)
    /\ session = 1
    /\ products = <<>>
    /\ fetches = <<Request(Authenticated(1))>>
    /\ feedLoading = TRUE
    /\ selectedProduct = NoProduct
    /\ editingProduct = NoProduct
    /\ showSellModal = FALSE
    /\ notice = ""
    /\ step = 1
    /\ loading = FALSE
    /\ imageFile = NoFile
    /\ countryCode = <<"+", "9", "1">>
    /\ formData = InitialFormData
    /\ submits = {}
    /\ editForm = InitialFormData
    /\ saving = FALSE
    /\ saves = {}
    /\ creator = NoRecord
    /\ channels = Subscribed({}, session)
    /\ events = 0

NextBanner ==
    \/ \E k \in DOMAIN fetches : FetchResponse(k, FALSE)
    \/ RefreshSession
    \/ \E caller \in Callers(accounts), payload \in ElsewherePayloads :
          InsertElsewhere(caller, payload)
    \/ Notification
    \/ \E k \in DOMAIN products : SelectProduct(k)
    \/ CloseDetail

SpecBanner == InitBanner /\ [][NextBanner]_vars

(***************************************************************************)
(* Properties of the listing wizard, checked under SpecSell.               *)
(***************************************************************************)
\* C4: every record the listing form hands to the storage layer carries an
\* owner field equal to the account of the session that pressed Publish.
C4_SubmittedRecordCarriesSessionOwner ==
    \A s \in submits :
        /\ "owner_id" \in DOMAIN s.record
        /\ s.record.owner_id = s.account

\* C10: the wizard moves from step 1 to 2 only with title, description and
\* category non-empty, from step 2 to 3 only with price and condition
\* non-empty, and a submit goes out only from step 3 with seller name and
\* seller phone non-empty.
C10_ForwardOnlyWithRequiredFields ==
    [][/\ (step = 1 /\ step' = 2) =>
            formData.title # "" /\ formData.description # "" /\ formData.category # ""
       /\ (step = 2 /\ step' = 3) =>
            formData.price # <<>> /\ formData.condition # ""
       /\ (submits' \ submits # {}) =>
            step = 3 /\ formData.sellerName # "" /\ formData.sellerPhone # <<>>]_vars

\* C10 witness: the wizard has been taken through both Next steps and a
\* submit has gone out, all five typed fields filled in.
C10_Witness ==
    /\ step = 3
    /\ submits # {}
    /\ formData.title # "" /\ formData.description # "" /\ formData.price # <<>>
    /\ formData.sellerName # "" /\ formData.sellerPhone # <<>>

\* C11: whenever the wizard is shown at step 2 or 3, whatever the fields hold
\* and whether or not a submit is pending, Back is enabled; and a step that
\* lowers the step while the session and the set of pending submits stay as
\* they are lowers it by exactly one and leaves the form fields, the selected
\* file and the country code unchanged.
C11_BackAlwaysAllowed ==
    /\ []((SellOpen /\ NoAlert /\ step \in {2, 3}) => ENABLED Back)
    /\ [][(step' < step /\ session' = session /\ submits' = submits) =>
            /\ step' = step - 1
            /\ formData' = formData
            /\ imageFile' = imageFile
            /\ countryCode' = countryCode]_vars

\* C11 witness: Back has been pressed at step 3 while a submit was pending.
C11_Witness ==
    /\ SellOpen
    /\ step = 2
    /\ loading
    /\ submits # {}

\* C20: a fetchProducts call that ends with an error leaves products exactly
\* as it was and clears the feed's loading flag.
C20_FailedFetchKeepsProducts ==
    [][(/\ Len(fetches') < Len(fetches)
        /\ last'.op = "select"
        /\ last'.status = "undelivered")
       => /\ products' = products
          /\ feedLoading' = FALSE]_vars

\* C20 witness: the latest statement is a feed fetch that failed, a listing
\* is still displayed and the loading flag is down.
C20_Witness ==
    /\ last.op = "select"
    /\ last.status = "undelivered"
    /\ products # <<>>
    /\ ~feedLoading

(***************************************************************************)
(* Properties of normalizePhone, checked under SpecPhone.  The phone input *)
(* is formData.sellerPhone; the expected results are written out here      *)
(* without the helpers normalizePhone is built from.                       *)
(***************************************************************************)
IsDecimal(ch) == ch \in {"0", "1", "2", "3", "4", "5", "6", "7", "8", "9"}

\* The digit characters of s in their order.
DecimalsOf(s) == SelectSeq(s, IsDecimal)

\* s without its leading zeros.
WithoutLeadingZeros(s) ==
    LET zeros == {n \in 0..Len(s) : \A i \in 1..n : s[i] = "0"}
        k == CHOOSE n \in zeros : \A m \in zeros : m <= n
    IN  SubSeq(s, k + 1, Len(s))

Blank(s) == \A i \in DOMAIN s : s[i] = " "

\* The first character of s that is not a space is '+'.
TrimmedStartsWithPlus(s) ==
    \E i \in DOMAIN s : s[i] = "+" /\ \A j \in 1..(i - 1) : s[j] = " "

\* The digits of a country code: the code after its '+'.
CodeDigits(code) == SubSeq(code, 2, Len(code))

BeginsWith(s, t) == Len(t) <= Len(s) /\ \A i \in DOMAIN t : s[i] = t[i]

AllCountryCodes == {countryCodes[i] : i \in DOMAIN countryCodes}

\* C12: for a phone input whose trimmed value starts with '+', normalizePhone
\* gives '+' followed by the input's digit characters in their order, leading
\* zeros kept, under every country code; the blur handler and handleSubmit
\* put exactly that into the field and into the record.
C12_PlusInputKeepsItsDigits ==
    /\ [](TrimmedStartsWithPlus(formData.sellerPhone) =>
            \A code \in AllCountryCodes :
                normalizePhone(code, formData.sellerPhone)
                    = <<"+">> \o DecimalsOf(formData.sellerPhone))
    /\ [][TrimmedStartsWithPlus(formData.sellerPhone) =>
            /\ \A s \in submits' \ submits :
                  s.record.seller_phone = <<"+">> \o DecimalsOf(formData.sellerPhone)
            /\ formData'.sellerPhone # formData.sellerPhone =>
                  formData'.sellerPhone = <<"+">> \o DecimalsOf(formData.sellerPhone)]_vars

\* C12 witness: a record has been sent for an input that starts with '+',
\* has a zero right after it and a space among its digits; the record holds
\* '+' and the digits, the zero kept.
C12_Witness ==
    /\ formData.sellerPhone = <<"+", "0", " ", "9">>
    /\ \E s \in submits : s.record.seller_phone = <<"+", "0", "9">>

\* C13 as stated: for a phone input that does not start with '+' and whose
\* digits, leading zeros removed, begin with the selected country code's
\* digits, normalizePhone gives '+' followed by exactly those digits.
C13_NoPlusInputWithCodeKeepsDigits ==
    (/\ ~BeginsWith(formData.sellerPhone, <<"+">>)
     /\ BeginsWith(WithoutLeadingZeros(DecimalsOf(formData.sellerPhone)),
                   CodeDigits(countryCode)))
    => normalizePhone(countryCode, formData.sellerPhone)
           = <<"+">> \o WithoutLeadingZeros(DecimalsOf(formData.sellerPhone))

\* C13 amended: the same for a phone input whose trimmed value does not
\* start with '+'; the blur handler and handleSubmit put exactly that into
\* the field and into the record.
C13_TrimmedNoPlusInputWithCodeKeepsDigits ==
    /\ [](\A code \in AllCountryCodes :
            (/\ ~TrimmedStartsWithPlus(formData.sellerPhone)
             /\ BeginsWith(WithoutLeadingZeros(DecimalsOf(formData.sellerPhone)),
                           CodeDigits(code)))
            => normalizePhone(code, formData.sellerPhone)
                   = <<"+">> \o WithoutLeadingZeros(DecimalsOf(formData.sellerPhone)))
    /\ [][(/\ ~TrimmedStartsWithPlus(formData.sellerPhone)
           /\ BeginsWith(WithoutLeadingZeros(DecimalsOf(formData.sellerPhone)),
                         CodeDigits(countryCode)))
          => /\ \A s \in submits' \ submits :
                   s.record.seller_phone
                       = <<"+">> \o WithoutLeadingZeros(DecimalsOf(formData.sellerPhone))
             /\ formData'.sellerPhone # formData.sellerPhone =>
                   formData'.sellerPhone
                       = <<"+">> \o WithoutLeadingZeros(DecimalsOf(formData.sellerPhone))]_vars

\* C13 witness: under +91 a record has been sent for the input "0 91", whose
\* digits without the leading zero are the country code's; the record holds
\* "+91", the code once.
C13_Witness ==
    /\ countryCode = <<"+", "9", "1">>
    /\ formData.sellerPhone = <<"0", " ", "9", "1">>
    /\ \E s \in submits : s.record.seller_phone = <<"+", "9", "1">>

\* C14 as stated: for a non-blank phone input that does not start with '+'
\* and whose digits, leading zeros removed, do not begin with the selected
\* country code's digits, normalizePhone gives the country code followed by
\* those digits; for a blank input it gives the empty string.
C14_NoPlusInputGetsCode ==
    /\ Blank(formData.sellerPhone) =>
          normalizePhone(countryCode, formData.sellerPhone) = <<>>
    /\ (/\ ~Blank(formData.sellerPhone)
        /\ ~BeginsWith(formData.sellerPhone, <<"+">>)
        /\ ~BeginsWith(WithoutLeadingZeros(DecimalsOf(formData.sellerPhone)),
                       CodeDigits(countryCode)))
       => normalizePhone(countryCode, formData.sellerPhone)
              = countryCode \o WithoutLeadingZeros(DecimalsOf(formData.sellerPhone))

\* C14 amended: the same for a non-blank phone input whose trimmed value does
\* not start with '+'; the blur handler and handleSubmit put exactly that
\* into the field and into the record.
C14_TrimmedNoPlusInputGetsCode ==
    /\ [](\A code \in AllCountryCodes :
            /\ Blank(formData.sellerPhone) =>
                  normalizePhone(code, formData.sellerPhone) = <<>>
            /\ (/\ ~Blank(formData.sellerPhone)
                /\ ~TrimmedStartsWithPlus(formData.sellerPhone)
                /\ ~BeginsWith(WithoutLeadingZeros(DecimalsOf(formData.sellerPhone)),
                               CodeDigits(code)))
               => normalizePhone(code, formData.sellerPhone)
                      = code \o WithoutLeadingZeros(DecimalsOf(formData.sellerPhone)))
    /\ [][/\ Blank(formData.sellerPhone) =>
                /\ \A s \in submits' \ submits : s.record.seller_phone = <<>>
                /\ formData'.sellerPhone # formData.sellerPhone =>
                      formData'.sellerPhone = <<>>
          /\ (/\ ~Blank(formData.sellerPhone)
              /\ ~TrimmedStartsWithPlus(formData.sellerPhone)
              /\ ~BeginsWith(WithoutLeadingZeros(DecimalsOf(formData.sellerPhone)),
                             CodeDigits(countryCode)))
             => /\ \A s \in submits' \ submits :
                      s.record.seller_phone
                          = countryCode \o WithoutLeadingZeros(DecimalsOf(formData.sellerPhone))
                /\ formData'.sellerPhone # formData.sellerPhone =>
                      formData'.sellerPhone
                          = countryCode \o WithoutLeadingZeros(DecimalsOf(formData.sellerPhone))]_vars

\* C14 witness: under +91 a record has been sent for the input "0 9", whose
\* digits without the leading zero do not begin with 91; the record holds
\* "+919".
C14_Witness ==
    /\ countryCode = <<"+", "9", "1">>
    /\ formData.sellerPhone = <<"0", " ", "9">>
    /\ \E s \in submits : s.record.seller_phone = <<"+", "9", "1", "9">>

\* C30: normalizePhone applied to its own result, under any country code,
\* gives that result again; so the value the blur handler leaves in the field
\* is unchanged by any later normalization, and a submit of a field that
\* normalizePhone leaves as it is under some country code stores the field as it stands,
\* whatever country code is selected by then.
C30_NormalizePhoneIdempotent ==
    /\ [](\A c, d \in AllCountryCodes :
            normalizePhone(d, normalizePhone(c, formData.sellerPhone))
                = normalizePhone(c, formData.sellerPhone))
    /\ [][/\ formData'.sellerPhone # formData.sellerPhone =>
               \A d \in AllCountryCodes :
                   normalizePhone(d, formData'.sellerPhone) = formData'.sellerPhone
          /\ (\E c \in AllCountryCodes :
                 formData.sellerPhone = normalizePhone(c, formData.sellerPhone)) =>
               \A s \in submits' \ submits :
                   s.record.seller_phone = formData.sellerPhone]_vars

\* C30 witness: the input '19' was normalized on blur under +91, the country
\* code then changed to +1, and the submit stored what the blur had left.
C30_Witness ==
    /\ countryCode = <<"+", "1">>
    /\ formData.sellerPhone = <<"+", "9", "1", "1", "9">>
    /\ \E s \in submits : s.record.seller_phone = <<"+", "9", "1", "1", "9">>

\* C29: whenever the wizard is at step 2 or 3 the title, description and
\* category are non-empty, at step 3 the price and condition are non-empty
\* too, and every record handed to the insert has a non-empty seller_name and
\* a non-empty seller_phone.
C29_SubmittedRecordHasRequiredFields ==
    /\ step >= 2 =>
          formData.title # "" /\ formData.description # "" /\ formData.category # ""
    /\ step = 3 => formData.price # <<>> /\ formData.condition # ""
    /\ \A s \in submits :
          s.record.seller_name # "" /\ s.record.seller_phone # <<>>

(***************************************************************************)
(* Properties of a submit's outcome, checked under SpecListing.            *)
(***************************************************************************)
\* A submit has ended in this step.
SubmitEnded(s) == s \in submits /\ \A t \in submits' : t.call # s.call

\* C15: when a submit ends without a row stored (the upload was rejected, the
\* insert was rejected or did not reach the database), a notice is shown,
\* the step, every form field, the selected file and the country code are
\* as before, the modal is as before, and loading is false.
C15_FailedSubmitKeepsTheForm ==
    [][(\E s \in submits : SubmitEnded(s) /\ rows' = rows) =>
          /\ notice' # ""
          /\ step' = step
          /\ formData' = formData
          /\ imageFile' = imageFile
          /\ countryCode' = countryCode
          /\ showSellModal' = showSellModal
          /\ loading' = FALSE]_vars

\* C15 witness: an upload has been rejected: the notice is up, the wizard is
\* open at step 3 with the file still selected, nothing pending, loading false.
C15_Witness ==
    /\ notice = "Create a public bucket named \"product-images\" in Supabase Storage."
    /\ showSellModal
    /\ step = 3
    /\ DOMAIN imageFile # {}
    /\ formData.sellerName # ""
    /\ submits = {}
    /\ ~loading

\* C16: when a submit ends with its row stored, every text field of the form
\* is empty, the category is 'Books', the condition 'Used', no file is
\* selected, the country code is '+91', the step is 1, a fetch of the feed
\* has been started and the modal is closed.
C16_SuccessfulSubmitResetsTheForm ==
    [][(\E s \in submits : SubmitEnded(s) /\ rows' # rows) =>
          /\ formData' = [title |-> "", description |-> "", category |-> "Books",
                          condition |-> "Used", price |-> <<>>, imageUrl |-> <<>>,
                          sellerName |-> "", sellerPhone |-> <<>>]
          /\ imageFile' = <<>>
          /\ countryCode' = <<"+", "9", "1">>
          /\ step' = 1
          /\ Len(fetches') = Len(fetches) + 1
          /\ feedLoading'
          /\ showSellModal' = FALSE]_vars

\* C16 witness: a listing composed with the other category, the other
\* condition, an uploaded file and the country code +1 has been stored, and
\* the form is back at its defaults, the modal closed, the fetch under way.
C16_Witness ==
    /\ \E i \in DOMAIN rows :
          /\ rows[i].category = "Electronics"
          /\ rows[i].condition = "New"
          /\ rows[i].image_url = publicUrl
          /\ rows[i].seller_phone = <<"+", "1", "9", "8">>
    /\ formData = InitialFormData
    /\ imageFile = NoFile
    /\ countryCode = <<"+", "9", "1">>
    /\ step = 1
    /\ fetches # <<>>
    /\ ~showSellModal

\* C18: in every reachable state the form does not hold both a selected file
\* and a non-empty image URL: selecting a valid image file empties the URL
\* and typing a non-empty URL drops the file.
C18_ImageVariantsExclusive ==
    ~(DOMAIN imageFile # {} /\ formData.imageUrl # <<>>)

\* C18 witness: a valid image file is selected, the URL field is empty and
\* the wizard has moved on to step 3 with it.
C18_Witness ==
    /\ SellOpen
    /\ step = 3
    /\ DOMAIN imageFile # {}
    /\ imageFile.type.major = "image"
    /\ formData.imageUrl = <<>>

\* C19: a submit made with a file selected starts with the upload, no insert
\* issued; it moves on to the insert only with the public URL as the
\* record's image_url, and the record then goes to the database as it is; a
\* submit that ends during the upload has issued no insert.
C19_UploadBeforeInsert ==
    [][/\ \A s \in submits' \ submits :
             (DOMAIN imageFile # {} /\ \A t \in submits : t.call # s.call)
             => s.pc = "uploading"
       /\ \A s \in submits :
             s.pc = "uploading" =>
                \/ s \in submits'
                \/ /\ SubmitEnded(s)
                   /\ rows' = rows
                   /\ last' = last
                \/ \E t \in submits' :
                      /\ t.call = s.call
                      /\ t.pc = "inserting"
                      /\ t.record.image_url = publicUrl
                      /\ rows' = rows
                      /\ last' = last
       /\ \A s \in submits :
             (s.pc = "inserting" /\ SubmitEnded(s))
             => /\ last'.op = "insert"
                /\ last'.payload = s.record
                /\ (rows' # rows => rows'[NextId(rows)].image_url = s.record.image_url)]_vars

\* C19 witness: a listing published with a file has been stored, its
\* image_url the public URL of the upload.
C19_Witness ==
    /\ last.op = "insert"
    /\ last.status = "ok"
    /\ last.payload.image_url = publicUrl
    /\ \E i \in DOMAIN rows : rows[i].image_url = publicUrl

(***************************************************************************)
(* Properties of the feed, checked under SpecFeed.                         *)
(***************************************************************************)
\* A step in which the channel's callback handles one notification.
NotificationHandled ==
    /\ channels # {}
    /\ channels' = channels
    /\ events' = events - 1

\* A step in which one fetchProducts call is issued, under `caller`.
FetchIssued(caller) ==
    /\ Len(fetches') = Len(fetches) + 1
    /\ fetches'[Len(fetches')].caller = caller
    /\ ~fetches'[Len(fetches')].served
    /\ \A k \in DOMAIN fetches :
          /\ fetches'[k].caller = fetches[k].caller
          /\ fetches'[k].served = fetches[k].served
          /\ fetches'[k].data = fetches[k].data

\* A step in which a fetchProducts call gets its answer.
FetchAnswered == Len(fetches') = Len(fetches) - 1 /\ feedLoading' = FALSE

\* C21: each notification handled while a session is active starts one fetch
\* of the feed and touches the list in no other way; so does each step in
\* which the session becomes active; the database reads every stored row for
\* a fetch, and the answer replaces the list by those rows, newest first.
C21_NotificationRefetchesInFull ==
    [][/\ NotificationHandled =>
             /\ FetchIssued(CurrentCaller)
             /\ products' = products
       /\ (session = NULL /\ session' # NULL) =>
             /\ FetchIssued(Authenticated(session'))
             /\ products' = products
       /\ \A k \in DOMAIN fetches :
             (/\ Len(fetches') = Len(fetches)
              /\ ~fetches[k].served
              /\ fetches'[k].served)
             => fetches'[k].data = rows
       /\ FetchAnswered =>
             \E k \in DOMAIN fetches :
                 /\ fetches' = RemoveAt(fetches, k)
                 /\ {products'[i].id : i \in DOMAIN products'}
                       = DOMAIN (IF fetches[k].served THEN fetches[k].data ELSE rows)
                 /\ \A i \in DOMAIN products' :
                       products'[i] = Product(products'[i].id,
                                              (IF fetches[k].served THEN fetches[k].data
                                               ELSE rows)[products'[i].id])
                 /\ \A i, j \in DOMAIN products' :
                       i < j => products'[i].id > products'[j].id]_vars

\* C21 witness: a listing was added elsewhere under a registered channel, its
\* notification has been handled, and the fetch it started is on its way.
C21_Witness ==
    /\ session # NULL
    /\ last.op = "insert"
    /\ events = 0
    /\ Len(fetches) = 1
    /\ ~fetches[1].served
    /\ feedLoading
    /\ products = <<>>

\* C22: from the handling of a notification to the answer of the fetch it
\* started the view shows a complete list and no loading placeholder: a
\* featured section that shows a list when the notification is handled goes
\* on showing that list, and the answer then puts a list in its place.
C22_NotificationRefetchIsAtomic ==
    [][/\ (NotificationHandled /\ ~FeedView.placeholder) => FeedView' = FeedView
       /\ FetchAnswered => ~FeedView'.placeholder]_vars

\* C26: the latest fetch wins: once the fetchProducts call issued last has
\* been answered, the answer of an earlier call that arrives after it, as the
\* last one outstanding, leaves the list as the latest call's answer set it.
C26_LatestRefetchWins ==
    [][\A k \in DOMAIN fetches :
          (/\ FetchAnswered
           /\ fetches' = <<>>
           /\ fetches = <<fetches[k]>>
           /\ ~fetches[k].latest)
          => products' = products]_vars

\* C27: at most one channel is registered, none without a session, and the
\* one registered belongs to the session's account; a step that registers a
\* channel or ends the session (sign-out, page closed) leaves none of the
\* earlier channels registered, what was sent to a removed channel is
\* dropped, and a notification is handled only under a session.
C27_ChannelScopedToSession ==
    /\ [](Cardinality(channels) <= 1)
    /\ [](session = NULL => channels = {})
    /\ [](\A c \in channels : c.account = session)
    /\ [][/\ channels' # channels => channels' \cap channels = {}
          /\ (channels' # channels /\ channels # {}) => events' = 0
          /\ NotificationHandled => session # NULL]_vars

\* C27 witness: the session was renewed: the second channel is registered,
\* the first one is gone.
C27_Witness ==
    /\ session # NULL
    /\ channels = {[id |-> 2, account |-> session]}

(***************************************************************************)
(* Properties of the wizard across sessions, checked under SpecSession.    *)
(***************************************************************************)
\* C28 as stated: at most one submit of the listing form is in flight at a
\* time: no insert is issued while an earlier submit awaits its answer.
C28_OneSubmitInFlight == Cardinality(submits) <= 1

\* C28 amended: of the submits of the form as mounted for the running
\* session at most one is in flight; while it is, loading is true and Publish
\* is disabled, wherever the wizard stands and whether the modal is open or
\* closed; a submit is issued only when none of them is pending.
C28_OneSubmitInFlightPerSession ==
    /\ [](Cardinality({s \in submits : s.live}) <= 1)
    /\ []((\E s \in submits : s.live) => (loading /\ PublishDisabled))
    /\ [][\A s \in submits' :
             (\A t \in submits : t.call # s.call) => \A t \in submits : ~t.live]_vars

\* C28 witness: a submit of the running session is pending, the form filled
\* in as Publish needs it, and the modal has been closed meanwhile.
C28_Witness ==
    /\ session # NULL
    /\ ~showSellModal
    /\ \E s \in submits : s.live
    /\ canProceedStep3(formData)
    /\ step = 3

(***************************************************************************)
(* Properties of the stored listings, checked under SpecEdit.              *)
(***************************************************************************)
\* C24: no stored listing has a negative price.
C24_StoredPriceNonNegative ==
    \A i \in DOMAIN rows : rows[i].price >= 0

\* '+' followed by digits and nothing else.
DialCodeForm(phone) ==
    /\ Len(phone) >= 2
    /\ phone[1] = "+"
    /\ \A i \in 2..Len(phone) : IsDecimal(phone[i])

\* C25: the seller phone of every stored listing is '+' followed only by
\* digits.
C25_StoredPhoneNormalized ==
    \A i \in DOMAIN rows : DialCodeForm(rows[i].seller_phone)

(***************************************************************************)
(* Properties of the placeholder banner, checked under SpecBanner.         *)
(***************************************************************************)
\* The listings on display.
Displayed == {products[i] : i \in DOMAIN products}

C5_CreatorSaveTakesEffect ==
    [][\A s \in saves \ saves' :
          (/\ last'.op = "update"
           /\ last'.status # "undelivered"
           /\ s.id \in DOMAIN creator
           /\ creator[s.id] = s.account
           /\ s.caller = Authenticated(s.account))
          => rows'[s.id] = RequestedRow(rows[s.id], s.payload)]_vars

\* C17: when the database answers a save for a row whose owner is null or is
\* not the caller - a save the update policy does not let through - a notice
\* is shown, no fetch of the feed is started and the edit modal stays open.
C17_RefusedSaveIsSurfaced ==
    [][\A s \in saves \ saves' :
          (/\ last'.op = "update"
           /\ last'.status # "undelivered"
           /\ s.id \in DOMAIN rows
           /\ (rows[s.id].owner_id = NULL \/ rows[s.id].owner_id # AuthUid(s.caller)))
          => /\ notice' # ""
             /\ fetches' = fetches
             /\ editingProduct' = editingProduct]_vars

====
